---- MODULE Spec2Model ----
(***************************************************************************)
(* RwSpinlock of omango-util (src/src/lock.rs): one AtomicU32 `flag`, the  *)
(* protected `value`, and guards whose drop releases the lock.  Every      *)
(* atomic operation of the code is one step of one thread.                 *)
(***************************************************************************)
EXTENDS Integers, FiniteSets, Sequences, TLC

\* ---------------------------------------------------------------- bounds
NThreads == 2
\* guards one thread holds at a time, acquired one by one
MaxHeld == 2
\* completed and started increments of the protected counter
MaxInc == 2
\* write guards leaked with mem::forget
MaxLeak == 1
\* threads that panic
MaxPanics == 1
\* single failed fetch_add attempts the flag carries above a multiple of 2^30
MaxOver == 1

Threads == 1..NThreads

\* ------------------------------------------------------- u32 arithmetic
\* const WRITE_NUMBER: u32 = 1_u32 << 30
WRITE_NUMBER == 2^30

\* An AtomicU32 holds hi * 2^30 + lo with hi in 0..3 and lo in 0..2^30-1:
\* the 32 bits of the word, split so that every intermediate sum stays
\* below 2^31.
Word(h, l) == [hi |-> h, lo |-> l]

Zero == Word(0, 0)

\* x == 0
IsZero(x) == x.hi = 0 /\ x.lo = 0

\* x >= WRITE_NUMBER
AtLeastWriteNumber(x) == x.hi >= 1

\* x.wrapping_add(n) for 0 <= n <= 2^30 (fetch_add wraps around on overflow)
WrappingAdd(x, n) ==
    LET s == x.lo + n
    IN  Word((x.hi + (s \div WRITE_NUMBER)) % 4, s % WRITE_NUMBER)

\* x.wrapping_sub(1) (fetch_sub wraps around on overflow)
WrappingSub1(x) ==
    IF x.lo > 0 THEN Word(x.hi, x.lo - 1)
    ELSE Word((x.hi + 3) % 4, WRITE_NUMBER - 1)

\* the calls of one polling loop, taken in one step (see TryReadPoll)
PollCalls == WRITE_NUMBER

\* the calls of one leaking loop, taken in one step (see ReadForgetLoop)
LeakCalls == WRITE_NUMBER - 2

\* ----------------------------------------------------------------- state
VARIABLES
    flag,        \* RwSpinlock.flag: AtomicU32
    value,       \* RwSpinlock.value: UnsafeCell<T>, T = (counter n, buffer b)
    pc,          \* where each thread is inside write(), read(), drop() or a critical section
    rd,          \* guards each thread holds that read()/try_read() returned
    wr,          \* guards each thread holds that write()/try_write() returned
    dropKind,    \* the kind ("r"/"w") of the guard whose drop() a thread is running
    tmp,         \* `let tmp = *lock` of each thread
    mode,        \* "run", "unwind" (panicking, destructors run) or "dead"
    leaked,      \* guards passed to mem::forget: never dropped
    ret,         \* the call that has just returned: its result, and who held the lock
    committed,   \* the value at the last release of a write guard
    incs,        \* increments completed under a write guard
    everDropped, \* some guard has been dropped
    hb           \* happens-before: whose view holds the latest write to `value`

vars == <<flag, value, pc, rd, wr, dropKind, tmp, mode, leaked, ret,
          committed, incs, everDropped, hb>>

\* ----------------------------------------------------------- who holds
Holding(t) == rd[t] + wr[t]

InDrop(t) == pc[t] \in {"drop_store", "drop_sub"}

RECURSIVE SumOver(_, _)
SumOver(f, S) ==
    IF S = {} THEN 0
    ELSE LET t == CHOOSE u \in S : TRUE IN f[t] + SumOver(f, S \ {t})

\* read guards that have not been dropped: held by a thread or forgotten
ReadGuards == SumOver(rd, Threads) + leaked.r

\* a write guard exists that has not been released: held, leaked, or in drop()
WriteHeld ==
    \/ \E t \in Threads : wr[t] > 0
    \/ leaked.w > 0
    \/ \E t \in Threads : InDrop(t) /\ dropKind[t] = "w"

\* a read guard exists that has not been released
ReadHeld ==
    \/ \E t \in Threads : rd[t] > 0
    \/ leaked.r > 0
    \/ \E t \in Threads : InDrop(t) /\ dropKind[t] = "r"

\* no guard outstanding and no acquisition in progress
Quiescent ==
    /\ ~WriteHeld
    /\ ~ReadHeld
    /\ \A t \in Threads : pc[t] = "idle"

\* a thread may start a lock operation
CanCall(t) == pc[t] = "idle" /\ mode[t] = "run" /\ Holding(t) < MaxHeld

\* no call has just returned
NoRet ==
    [op |-> "none", some |-> FALSE, wrHeld |-> FALSE, rdHeld |-> FALSE,
     quiet |-> FALSE, val |-> <<>>]

\* try_write()/try_read() returned Some or None
Result(op, some) ==
    [op |-> op, some |-> some, wrHeld |-> WriteHeld, rdHeld |-> ReadHeld,
     quiet |-> Quiescent /\ everDropped, val |-> <<>>]

\* *guard of a guard that read()/try_read() returned gave v
Observed(v) ==
    [op |-> "deref", some |-> TRUE, wrHeld |-> WriteHeld, rdHeld |-> ReadHeld,
     quiet |-> FALSE, val |-> <<v>>]

\* ------------------------------------------------------- memory ordering
\* Every modification of the flag but store(0, Release) is a read-modify-write,
\* so the flag's value always belongs to the release sequence headed by the
\* latest store(0, Release) (or is the initial value, written before the
\* threads start).  hb.rel: that store was made by a thread whose view held
\* the latest write to `value`; hb.seen[t]: the latest write to `value`
\* happens-before thread t's next step; hb.old: the value it replaced, kept
\* while some thread may still read it.

\* a successful compare_exchange_weak(.., Ordering::Acquire, ..) by t
\* synchronizes with the head of the release sequence
Acquire(t) ==
    LET seen == [hb.seen EXCEPT ![t] = @ \/ hb.rel]
    IN  [seen |-> seen, rel |-> hb.rel,
         old |-> IF \A u \in Threads : seen[u] THEN value ELSE hb.old]

\* flag.store(0, Ordering::Release) by t
Release(t) == [hb EXCEPT !.rel = hb.seen[t]]

\* a store through deref_mut by t: the latest write is now t's
Stored(t) == [seen |-> [u \in Threads |-> u = t], rel |-> FALSE, old |-> value]

\* ------------------------------------------------------------------ new
\* RwSpinlock::new(value): flag 0
Init ==
    /\ flag = Zero
    /\ value = [n |-> 0, b |-> <<1, 2, 3>>]
    /\ pc = [t \in Threads |-> "idle"]
    /\ rd = [t \in Threads |-> 0]
    /\ wr = [t \in Threads |-> 0]
    /\ dropKind = [t \in Threads |-> "-"]
    /\ tmp = [t \in Threads |-> 0]
    /\ mode = [t \in Threads |-> "run"]
    /\ leaked = [r |-> 0, w |-> 0]
    /\ ret = NoRet
    /\ committed = value
    /\ incs = 0
    /\ everDropped = FALSE
    /\ hb = [seen |-> [t \in Threads |-> TRUE], rel |-> TRUE, old |-> value]

\* ------------------------------------------------- compare_exchange_weak
\* a compare-and-swap that tests the writer's bit only (not the code's)
CasIgnoresReaders == ~AtLeastWriteNumber(flag)

\* flag.compare_exchange_weak(0, WRITE_NUMBER, Acquire, Relaxed).is_ok():
\* succeeds only from 0, and may fail spuriously also when the flag is 0.
CasOk == IsZero(flag)

\* ------------------------------------------------------------ try_write
TryWrite(t) ==
    /\ CanCall(t)
    /\ \/ /\ CasOk
          /\ flag' = Word(1, 0)
          /\ wr' = [wr EXCEPT ![t] = @ + 1]
          /\ ret' = Result("try_write", TRUE)
          /\ hb' = Acquire(t)
       \/ /\ ret' = Result("try_write", FALSE)
          /\ UNCHANGED <<flag, wr, hb>>
    /\ UNCHANGED <<value, pc, rd, dropKind, tmp, mode, leaked, committed, incs,
                   everDropped>>

\* ------------------------------------------------------------- try_read
\* pre_value < WRITE_NUMBER
Admitted(pre_value) == ~AtLeastWriteNumber(pre_value)

\* the model's cap on the attempts that are not admitted (the code has none)
MayFail(x) == x.lo < MaxOver \/ x.lo >= WRITE_NUMBER - MaxOver

\* fetch_add(1, Ordering::Relaxed): no synchronization, hb stays
TryRead(t) ==
    /\ CanCall(t)
    /\ Admitted(flag) \/ MayFail(flag)
    /\ flag' = WrappingAdd(flag, 1)
    /\ IF Admitted(flag)
       THEN /\ rd' = [rd EXCEPT ![t] = @ + 1]
            /\ ret' = Result("try_read", TRUE)
       ELSE /\ ret' = Result("try_read", FALSE)
            /\ UNCHANGED rd
    /\ UNCHANGED <<value, pc, wr, dropKind, tmp, mode, leaked, committed, incs,
                   everDropped, hb>>

\* A caller's loop `while m.try_read().is_none() {}` while the lock stays
\* write-locked: PollCalls consecutive calls of this thread, every one of
\* which finds pre_value >= WRITE_NUMBER, adds 1 and returns None.
TryReadPoll(t) ==
    /\ CanCall(t)
    /\ AtLeastWriteNumber(flag)
    /\ flag.hi <= 2 \/ flag.lo = 0
    /\ flag' = WrappingAdd(flag, PollCalls)
    /\ ret' = Result("try_read", FALSE)
    /\ UNCHANGED <<value, pc, rd, wr, dropKind, tmp, mode, leaked, committed,
                   incs, everDropped, hb>>

\* ---------------------------------------------------------------- write
\* one iteration's compare_exchange_weak, at the call or after the spin
\* loop; a panicking thread calls write() from Unwinder::drop
WriteCas(t) ==
    /\ \/ CanCall(t)
       \/ pc[t] = "write_cas"
       \/ pc[t] = "idle" /\ mode[t] = "unwind" /\ Holding(t) < MaxHeld
    /\ \/ /\ CasOk
          /\ flag' = Word(1, 0)
          /\ wr' = [wr EXCEPT ![t] = @ + 1]
          /\ pc' = [pc EXCEPT ![t] = "idle"]
          /\ hb' = Acquire(t)
       \/ /\ pc' = [pc EXCEPT ![t] = "write_spin"]
          /\ UNCHANGED <<flag, wr, hb>>
    /\ ret' = NoRet
    /\ UNCHANGED <<value, rd, dropKind, tmp, mode, leaked, committed, incs,
                   everDropped>>

\* while self.flag.load(Relaxed) != 0 { backoff.spin() }
WriteSpin(t) ==
    /\ pc[t] = "write_spin"
    /\ pc' = [pc EXCEPT ![t] = IF IsZero(flag) THEN "write_cas" ELSE "write_spin"]
    /\ ret' = NoRet
    /\ UNCHANGED <<flag, value, rd, wr, dropKind, tmp, mode, leaked, committed,
                   incs, everDropped, hb>>

\* ----------------------------------------------------------------- read
\* one iteration's fetch_add(1, Ordering::Relaxed), at the call or after the
\* spin loop
ReadFetchAdd(t) ==
    /\ CanCall(t) \/ pc[t] = "read_faa"
    /\ Admitted(flag) \/ MayFail(flag)
    /\ flag' = WrappingAdd(flag, 1)
    /\ IF Admitted(flag)
       THEN /\ rd' = [rd EXCEPT ![t] = @ + 1]
            /\ pc' = [pc EXCEPT ![t] = "idle"]
       ELSE /\ pc' = [pc EXCEPT ![t] = "read_spin"]
            /\ UNCHANGED rd
    /\ ret' = NoRet
    /\ UNCHANGED <<value, wr, dropKind, tmp, mode, leaked, committed, incs,
                   everDropped, hb>>

\* while self.flag.load(Relaxed) != 0 { backoff.spin() }
ReadSpin(t) ==
    /\ pc[t] = "read_spin"
    /\ pc' = [pc EXCEPT ![t] = IF IsZero(flag) THEN "read_faa" ELSE "read_spin"]
    /\ ret' = NoRet
    /\ UNCHANGED <<flag, value, rd, wr, dropKind, tmp, mode, leaked, committed,
                   incs, everDropped, hb>>

\* A loop of mem::forget(lock.read()): LeakCalls consecutive calls of this
\* thread, every one of which finds pre_value < WRITE_NUMBER and is admitted
\* at once; none of the guards is ever dropped.
ReadForgetLoop(t) ==
    /\ CanCall(t)
    /\ leaked.r = 0
    /\ flag.hi = 0 /\ flag.lo + LeakCalls <= WRITE_NUMBER
    /\ flag' = WrappingAdd(flag, LeakCalls)
    /\ leaked' = [leaked EXCEPT !.r = @ + LeakCalls]
    /\ ret' = NoRet
    /\ UNCHANGED <<value, pc, rd, wr, dropKind, tmp, mode, committed, incs,
                   everDropped, hb>>

\* mem::forget(m.write()) of test_rw_try_read: the guard goes without drop()
Forget(t) ==
    /\ pc[t] = "idle" /\ mode[t] = "run"
    /\ wr[t] > 0
    /\ leaked.w < MaxLeak
    /\ wr' = [wr EXCEPT ![t] = @ - 1]
    /\ leaked' = [leaked EXCEPT !.w = @ + 1]
    /\ ret' = NoRet
    /\ UNCHANGED <<flag, value, pc, rd, dropKind, tmp, mode, committed, incs,
                   everDropped, hb>>

\* ----------------------------------------------------------------- drop
\* if unlikely(self.parent.flag.load(Relaxed) >= WRITE_NUMBER): the branch is
\* chosen from the loaded flag; the guard itself records no kind.
DropBranch(loaded) ==
    IF AtLeastWriteNumber(loaded) THEN "drop_store" ELSE "drop_sub"

\* drop() of a guard of kind k ("r" from read()/try_read(), "w" from
\* write()/try_write()): the load
DropLoad(t, k) ==
    /\ pc[t] = "idle" /\ mode[t] \in {"run", "unwind"}
    /\ \/ k = "r" /\ rd[t] > 0 /\ rd' = [rd EXCEPT ![t] = @ - 1] /\ UNCHANGED wr
       \/ k = "w" /\ wr[t] > 0 /\ wr' = [wr EXCEPT ![t] = @ - 1] /\ UNCHANGED rd
    /\ dropKind' = [dropKind EXCEPT ![t] = k]
    /\ pc' = [pc EXCEPT ![t] = DropBranch(flag)]
    /\ ret' = NoRet
    /\ UNCHANGED <<flag, value, tmp, mode, leaked, committed, incs, everDropped, hb>>

\* drop() returns
Released(t) ==
    /\ pc' = [pc EXCEPT ![t] = "idle"]
    /\ dropKind' = [dropKind EXCEPT ![t] = "-"]
    /\ committed' = IF dropKind[t] = "w" THEN value ELSE committed
    /\ everDropped' = TRUE
    /\ ret' = NoRet
    /\ UNCHANGED <<value, rd, wr, tmp, mode, leaked, incs>>

\* self.parent.flag.store(0, Release)
DropStore(t) ==
    /\ pc[t] = "drop_store"
    /\ flag' = Zero
    /\ hb' = Release(t)
    /\ Released(t)

\* self.parent.flag.fetch_sub(1, Relaxed)
DropSub(t) ==
    /\ pc[t] = "drop_sub"
    /\ flag' = WrappingSub1(flag)
    /\ UNCHANGED hb
    /\ Released(t)

\* ------------------------------------------------------- deref, deref_mut
\* Deref::deref: &*self.parent.value.get(), read through a guard that
\* read()/try_read() returned (assert!(*lock >= 0) of test_rw_arc)
Deref(t) ==
    /\ pc[t] = "idle" /\ mode[t] = "run"
    /\ rd[t] > 0
    /\ ret' = Observed(value)
    /\ UNCHANGED <<flag, value, pc, rd, wr, dropKind, tmp, mode, leaked,
                   committed, incs, everDropped, hb>>

\* The same read by a thread whose fetch_add(1, Relaxed) did not synchronize
\* with the release of the latest write: the read is not ordered after that
\* write and may give the value it replaced.
DerefStale(t) ==
    /\ pc[t] = "idle" /\ mode[t] = "run"
    /\ rd[t] > 0
    /\ ~hb.seen[t]
    /\ ret' = Observed(hb.old)
    /\ UNCHANGED <<flag, value, pc, rd, wr, dropKind, tmp, mode, leaked,
                   committed, incs, everDropped, hb>>

InRmw(t) == pc[t] \in {"rmw1", "rmw2"}

\* let tmp = *lock (test_rw_arc), the load of *lock += 1 (test_rw_access_in_unwind)
RmwBegin(t) ==
    /\ pc[t] = "idle" /\ mode[t] \in {"run", "unwind"}
    /\ incs + Cardinality({u \in Threads : InRmw(u)}) < MaxInc
    /\ tmp' = [tmp EXCEPT ![t] = value.n]
    /\ pc' = [pc EXCEPT ![t] = "rmw1"]
    /\ ret' = NoRet
    /\ UNCHANGED <<flag, value, rd, wr, dropKind, mode, leaked, committed, incs,
                   everDropped, hb>>

\* the critical section of a thread that holds a write guard
RmwLoad(t) == wr[t] > 0 /\ RmwBegin(t)

\* DerefMut::deref_mut is implemented for every RwSpinlockGuard, so the guard
\* that read() returned mutates as well: let mut g = m.read(); *g += 1
ReadGuardRmwLoad(t) == wr[t] = 0 /\ rd[t] > 0 /\ RmwBegin(t)

\* *lock = -1
RmwTemp(t) ==
    /\ pc[t] = "rmw1" /\ mode[t] = "run"
    /\ value' = [value EXCEPT !.n = -1]
    /\ hb' = Stored(t)
    /\ pc' = [pc EXCEPT ![t] = "rmw2"]
    /\ ret' = NoRet
    /\ UNCHANGED <<flag, rd, wr, dropKind, tmp, mode, leaked, committed, incs,
                   everDropped>>

\* *lock = tmp + 1
RmwStore(t) ==
    /\ InRmw(t)
    /\ value' = [value EXCEPT !.n = tmp[t] + 1]
    /\ hb' = Stored(t)
    /\ incs' = incs + 1
    /\ tmp' = [tmp EXCEPT ![t] = 0]
    /\ pc' = [pc EXCEPT ![t] = "idle"]
    /\ ret' = NoRet
    /\ UNCHANGED <<flag, rd, wr, dropKind, mode, leaked, committed, everDropped>>

\* b[0] = 4 (test_rwlock_unsized)
FillFirst(t) ==
    /\ pc[t] = "idle" /\ mode[t] = "run"
    /\ wr[t] > 0
    /\ value.b # <<4, 2, 5>>
    /\ value' = [value EXCEPT !.b[1] = 4]
    /\ hb' = Stored(t)
    /\ pc' = [pc EXCEPT ![t] = "fill1"]
    /\ ret' = NoRet
    /\ UNCHANGED <<flag, rd, wr, dropKind, tmp, mode, leaked, committed, incs,
                   everDropped>>

\* b[2] = 5
FillSecond(t) ==
    /\ pc[t] = "fill1"
    /\ value' = [value EXCEPT !.b[3] = 5]
    /\ hb' = Stored(t)
    /\ pc' = [pc EXCEPT ![t] = "idle"]
    /\ ret' = NoRet
    /\ UNCHANGED <<flag, rd, wr, dropKind, tmp, mode, leaked, committed, incs,
                   everDropped>>

\* ---------------------------------------------------------------- panic
\* panic!() in a thread: its stack unwinds, and unwinding runs the
\* destructors: drop() of the guards it holds, and Unwinder::drop, which
\* takes write(), adds one and drops (test_rw_access_in_unwind).
Panic(t) ==
    /\ mode[t] = "run"
    /\ pc[t] \in {"idle", "rmw1", "rmw2", "fill1"}
    /\ Cardinality({u \in Threads : mode[u] # "run"}) < MaxPanics
    /\ mode' = [mode EXCEPT ![t] = "unwind"]
    /\ pc' = [pc EXCEPT ![t] = "idle"]
    /\ tmp' = [tmp EXCEPT ![t] = 0]
    /\ ret' = NoRet
    /\ UNCHANGED <<flag, value, rd, wr, dropKind, leaked, committed, incs,
                   everDropped, hb>>

\* every destructor has run: the thread is gone
UnwindDone(t) ==
    /\ mode[t] = "unwind"
    /\ pc[t] = "idle"
    /\ Holding(t) = 0
    /\ mode' = [mode EXCEPT ![t] = "dead"]
    /\ ret' = NoRet
    /\ UNCHANGED <<flag, value, pc, rd, wr, dropKind, tmp, leaked, committed,
                   incs, everDropped, hb>>

\* ------------------------------------------------------- specifications
Next ==
    \E t \in Threads :
        \/ TryWrite(t)
        \/ TryRead(t)
        \/ TryReadPoll(t)
        \/ WriteCas(t)
        \/ WriteSpin(t)
        \/ ReadFetchAdd(t)
        \/ ReadSpin(t)
        \/ ReadForgetLoop(t)
        \/ Forget(t)
        \/ DropLoad(t, "r")
        \/ DropLoad(t, "w")
        \/ DropStore(t)
        \/ DropSub(t)
        \/ Deref(t)
        \/ RmwLoad(t)
        \/ RmwTemp(t)
        \/ RmwStore(t)

\* RwSpinlock<i32> used by threads as in test_rw_arc
Spec == Init /\ [][Next]_vars

\* RwSpinlock<[i32]>: a buffer filled under the write guard and read under
\* read guards (test_rwlock_unsized)
NextUnsized ==
    \E t \in Threads :
        \/ TryWrite(t)
        \/ TryRead(t)
        \/ TryReadPoll(t)
        \/ WriteCas(t)
        \/ WriteSpin(t)
        \/ ReadFetchAdd(t)
        \/ ReadSpin(t)
        \/ ReadForgetLoop(t)
        \/ Forget(t)
        \/ DropLoad(t, "r")
        \/ DropLoad(t, "w")
        \/ DropStore(t)
        \/ DropSub(t)
        \/ Deref(t)
        \/ FillFirst(t)
        \/ FillSecond(t)

SpecUnsized == Init /\ [][NextUnsized]_vars

\* threads that increment under write() and panic, and threads that read
\* (test_rw_access_in_unwind); nothing is leaked
NextUnwind ==
    \E t \in Threads :
        \/ TryWrite(t)
        \/ TryRead(t)
        \/ TryReadPoll(t)
        \/ WriteCas(t)
        \/ WriteSpin(t)
        \/ ReadFetchAdd(t)
        \/ ReadSpin(t)
        \/ DropLoad(t, "r")
        \/ DropLoad(t, "w")
        \/ DropStore(t)
        \/ DropSub(t)
        \/ Deref(t)
        \/ RmwLoad(t)
        \/ RmwStore(t)
        \/ Panic(t)
        \/ UnwindDone(t)

SpecUnwind == Init /\ [][NextUnwind]_vars

\* the same with a caller that mutates through a read guard
NextDerefMut == Next \/ \E t \in Threads : ReadGuardRmwLoad(t)

SpecDerefMut == Init /\ [][NextDerefMut]_vars

\* the same with reads that are not ordered after the latest write
NextOrdering == Next \/ \E t \in Threads : DerefStale(t)

SpecOrdering == Init /\ [][NextOrdering]_vars

\* ------------------------------------------------------------- scheduling
\* write() and read() in progress, and the atomic steps left of a drop()
NextFair ==
    \E t \in Threads :
        \/ TryRead(t)
        \/ TryReadPoll(t)
        \/ WriteCas(t)
        \/ WriteSpin(t)
        \/ ReadFetchAdd(t)
        \/ ReadSpin(t)
        \/ DropLoad(t, "r")
        \/ DropLoad(t, "w")
        \/ DropStore(t)
        \/ DropSub(t)

\* the compare_exchange_weak of a write() that is past its spin loop succeeds
WriteCasDone(t) == pc[t] = "write_cas" /\ WriteCas(t) /\ wr'[t] > wr[t]

\* the fetch_add of a read() that is past its spin loop
ReadRetry(t) == pc[t] = "read_faa" /\ ReadFetchAdd(t)

\* A thread inside write(), read() or drop() keeps running: the scheduler
\* gives it its next step.  A spin loop loads the flag again and again, so a
\* flag that is 0 again and again is seen at 0 in the end, and a
\* compare_exchange_weak that is tried again and again with the flag at 0
\* does not fail spuriously for ever.  Nothing makes a thread start a call or
\* drop a guard it holds.
Fairness ==
    \A t \in Threads :
        /\ SF_vars(WriteSpin(t))
        /\ SF_vars(ReadSpin(t))
        /\ WF_vars(ReadRetry(t))
        /\ WF_vars(DropStore(t))
        /\ WF_vars(DropSub(t))
        /\ SF_vars(WriteCasDone(t))

SpecFair == Init /\ [][NextFair]_vars /\ Fairness

\* ------------------------------------------------------- read pressure
\* Readers whose hold periods overlap: a read guard is dropped only while
\* another one is held.
OverlapDrop(t) == ReadGuards >= 2 /\ DropLoad(t, "r")

\* A thread that holds nothing calls write() or try_write() while a read
\* guard is held.
ContendedWrite(t) == Holding(t) = 0 /\ ReadGuards >= 1 /\ WriteCas(t)

ContendedTryWrite(t) == Holding(t) = 0 /\ ReadGuards >= 1 /\ TryWrite(t)

NextPressure ==
    \E t \in Threads :
        \/ TryRead(t)
        \/ ReadFetchAdd(t)
        \/ OverlapDrop(t)
        \/ DropSub(t)
        \/ Deref(t)
        \/ ContendedTryWrite(t)
        \/ ContendedWrite(t)
        \/ WriteSpin(t)

\* Every read guard is dropped in the end (a drop that is possible again and
\* again is made), readers that can take another guard do, and the threads
\* inside write() and drop() keep running.
FairnessPressure ==
    \A t \in Threads :
        /\ SF_vars(OverlapDrop(t))
        /\ WF_vars(DropSub(t))
        /\ WF_vars(TryRead(t))
        /\ SF_vars(WriteSpin(t))
        /\ SF_vars(WriteCasDone(t))

SpecPressure == Init /\ [][NextPressure]_vars /\ FairnessPressure

\* ---------------------------------------------------------------- claims
Writers == {t \in Threads : wr[t] > 0}

Readers == {t \in Threads : rd[t] > 0}

TryReturned == ret.op \in {"try_write", "try_read"}

\* C1: mutual exclusion. At most one thread holds a guard that
\* write()/try_write() returned, no thread holds a guard that
\* read()/try_read() returned while another thread holds a write guard, and
\* no read through a read guard gives the -1 a writer stores temporarily.
C1_MutualExclusion ==
    /\ Cardinality(Writers) <= 1
    /\ \A t \in Writers : \A u \in Readers : u = t
    /\ ret.op = "deref" => ret.val[1].n # -1

\* C2: a try_read() or try_write() that returns while a write guard is held
\* or leaked returns None, whatever the number of attempts before it.
C2_NoneWhileWriteHeld ==
    TryReturned /\ ret.wrHeld => ~ret.some

\* C3: without a writer every read() is admitted at its first fetch_add (it
\* enters the spin loop only when a write guard is outstanding), read guards
\* coexist, and try_write() returns None while a read guard is outstanding.
C3_ReadersShare ==
    [][/\ \A t \in Threads :
              pc[t] # "read_spin" /\ pc'[t] = "read_spin" => WriteHeld
       /\ ret'.op = "try_write" /\ ret'.rdHeld => ~ret'.some]_vars

\* C4: once the last outstanding guard has been dropped and no acquisition is
\* in progress, the flag is 0 and a try_write() or try_read() called then
\* returns Some.
C4_FreeAfterLastDrop ==
    /\ Quiescent /\ everDropped => IsZero(flag)
    /\ TryReturned /\ ret.quiet => ret.some

\* C5: try_write() returns Some exactly when no read guard and no write guard
\* was outstanding at its compare-and-swap.
C5_TryWriteIffFree ==
    ret.op = "try_write" => (ret.some <=> ~ret.wrHeld /\ ~ret.rdHeld)

\* C6: try_read() returns Some exactly when no write guard was outstanding at
\* its fetch_add.
C6_TryReadIffNoWriter ==
    ret.op = "try_read" => (ret.some <=> ~ret.wrHeld)

\* C7: every step that changes the protected value is a step of a thread
\* that holds a write guard; a thread that holds only guards from
\* read()/try_read() never changes it.
C7_OnlyWriteGuardMutates ==
    [][value' # value =>
          \E t \in Threads : pc'[t] # pc[t] /\ wr[t] > 0]_vars

\* C8: a read through a read guard gives the value as it was when the last
\* write guard was released: all of that writer's mutations, none in part.
C8_ReadSeesCommitted ==
    ret.op = "deref" => ret.val[1] = committed

C10_NoLostUpdate ==
    ret.op = "deref" /\ ~ret.wrHeld /\ (\A t \in Threads : ~InRmw(t))
        => ret.val[1].n = incs

PendingWrite(t) == pc[t] \in {"write_cas", "write_spin"}

PendingRead(t) == pc[t] \in {"read_faa", "read_spin"}

\* every guard has been dropped and no thread but t is inside a call
Calm(t) ==
    /\ ~WriteHeld /\ ~ReadHeld
    /\ \A u \in Threads \ {t} : pc[u] = "idle"

\* C11: write() only delays. Under fair scheduling a write() does not stay
\* pending for ever once every guard has been dropped and no other thread is
\* inside a call or starts one: it returns its guard.
C11_WriteReturns ==
    \A t \in Threads : ~<>[](PendingWrite(t) /\ Calm(t))

\* C12: memory visibility. Every successful acquisition (write(),
\* try_write(), read(), try_read()) leaves the acquirer ordered after the
\* latest write made under a write guard, and a read through a read guard
\* while no write guard is outstanding gives the value as it is.
C12_WritesVisible ==
    [][/\ \A t \in Threads :
              rd'[t] > rd[t] \/ wr'[t] > wr[t] => hb'.seen[t]
       /\ ret'.op = "deref" /\ ~ret'.wrHeld => ret'.val[1] = value]_vars

\* no write guard is outstanding and no write() is pending
NoWriter == ~WriteHeld /\ \A u \in Threads : ~PendingWrite(u)

\* C13: a read() that was not admitted waits only for the writer. Under fair
\* scheduling it does not stay pending for ever once the write guard has
\* been released and no writer comes again, whoever holds read guards.
C13_ReadWaitsOnlyForWriter ==
    \A t \in Threads : ~<>[](PendingRead(t) /\ NoWriter)

\* C14: a read() that is not admitted takes its increment back before it
\* spins. While a write guard is held and no fetch_add is between its add
\* and its back-out (every read() in progress is in its spin loop, no
\* try_read() has just failed), the flag is exactly WRITE_NUMBER.
C14_BackOutBeforeSpin ==
    /\ \E t \in Threads : wr[t] > 0
    /\ \E t \in Threads : pc[t] = "read_spin"
    /\ ret.op # "try_read"
    => flag = Word(1, 0)

\* C15: counter exactness. Whenever no write guard is outstanding and no
\* thread is inside write(), read() or drop(), the flag equals the number of
\* read guards that have not been dropped, whatever attempts failed before.
C15_CounterExact ==
    ~WriteHeld /\ (\A t \in Threads : pc[t] \in {"idle", "rmw1", "rmw2", "fill1"})
        => flag = Word(ReadGuards \div WRITE_NUMBER, ReadGuards % WRITE_NUMBER)

\* C16: release dispatch. The branch a drop() takes from the flag it loads
\* matches the guard's kind: a guard from write()/try_write() is released by
\* store(0), a guard from read()/try_read() by fetch_sub(1).
C16_DropMatchesKind ==
    \A t \in Threads :
        InDrop(t) => (pc[t] = "drop_store" <=> dropKind[t] = "w")

\* C17: overshoot stays write-locked. While a write guard is held or
\* leaked, the flag is at or above WRITE_NUMBER after any number of failed
\* fetch_add attempts.
C17_OvershootStaysLocked ==
    (\E t \in Threads : wr[t] > 0) \/ leaked.w > 0 => AtLeastWriteNumber(flag)

\* C18: unbounded readers. With read guards outstanding (held or leaked, any
\* number of them) and no write guard, the flag stays below WRITE_NUMBER, and
\* it is not 0 before the last of them is released.
C18_ReadersStayInRange ==
    ~WriteHeld /\ ReadGuards > 0 => Admitted(flag) /\ ~IsZero(flag)

\* C19: recursive acquisition. A thread that holds a guard and is inside
\* write() never gets the write guard, and a thread that holds a read guard
\* and calls read() is admitted at its first fetch_add: it does not enter
\* the spin loop.
C19_RecursiveAcquisition ==
    [][\A t \in Threads :
          /\ Holding(t) > 0 /\ PendingWrite(t) => wr'[t] = wr[t]
          /\ rd[t] > 0 /\ wr[t] = 0 /\ pc[t] = "idle" => pc'[t] # "read_spin"]_vars

\* C20: writers can starve. With readers whose hold periods overlap, under
\* fair scheduling: no write() or try_write() ever gets the lock, a write()
\* that is pending stays pending, and yet every thread that holds read
\* guards keeps dropping them.
C20_WriterStarves ==
    /\ [](\A t \in Threads : wr[t] = 0)
    /\ [][\A t \in Threads : PendingWrite(t) => PendingWrite(t)']_vars
    /\ \A t \in Threads : []<><<DropSub(t)>>_vars \/ <>[](rd[t] = 0)

\* C20: a write() is spinning while a reader that has dropped guards before
\* is dropping one guard and holds another.
C20_Witness ==
    \E t, u \in Threads :
        /\ pc[t] = "write_spin"
        /\ pc[u] = "drop_sub" /\ rd[u] >= 1
        /\ everDropped

====
